---- MODULE Spec2Model ----
(***************************************************************************)
(* The capture session of src/lib/capture-session.js as a state machine.   *)
(*                                                                         *)
(* JavaScript runs one task at a time: a handler or a loop runs without    *)
(* interruption from one `await` to the next.  Every action below is one   *)
(* such run-to-the-next-await segment: a control operation called by the   *)
(* HTTP layer or the in-page overlay, or the continuation of a capture     *)
(* loop or of a stopAndSave after the promise it awaits has settled.       *)
(*                                                                         *)
(* Two functions are also modelled call by call, each in a variable of its *)
(* own: retry() of src/lib/utils.js, and waitForScreenToStabilize(), which *)
(* the capture loop takes as one step (LoopStabilized).  The batch queue    *)
(* processor (the JavaScript of src/uninstall.sh) is a machine of its own  *)
(* in the variable batch.  stopAndSave is modelled with its OCR pass       *)
(* (src/unnamed/part_004), its embedding failures and its text layers;     *)
(* OCR is only switched on in SpecSave and SpecSaveIdle.                   *)
(***************************************************************************)
EXTENDS Integers, Sequences, FiniteSets, TLC

\* ---------------------------------------------------------------- bounds
\* Accepted startCapture calls (each starts one _captureLoop).
MaxLoops == 2
\* Largest totalPages a caller passes to startCapture.
MaxPages == 2
\* stopAndSave calls.
MaxSaves == 1
\* stopAndSave calls in SpecStops, where calls overlap.
MaxStops == 2
\* Longest file name a request carries.
MaxNameLen == 3
\* Disconnections of the browser.
MaxDisconnects == 1
\* Largest totalPages of the single capture run of SpecRun.
MaxRunPages == 3

\* Largest maxRetries passed to retry.
MaxAttempts == 4

\* Longest time a polling screenshot takes to settle, in ms.
ShotMs == 100

\* waitForScreenToStabilize: default timeout and base interval (ms), the
\* matches required, the cap of the interval (ms).
StabTimeout == 5000
BaseInterval == 300
RequiredStableCount == 2
MaxInterval == 800

\* Items ever created by addToQueue, items per call, accepted
\* startProcessing calls, and advances of the clock.
MaxItems == 2
MaxAdd == 2
MaxRuns == 2
MaxClock == 3

\* config.totalPages and config.delay (ms) of a new session (constructor).
DefaultTotalPages == 100
DefaultDelay == 5000

VARIABLES
    state,              \* this.state
    browser,            \* this.browser is set and connected
    page,               \* this.page is set
    config,             \* this.config (the fields the capture loop reads)
    capturedImages,     \* this.capturedImages
    captureLoopActive,  \* this.captureLoopActive
    memoryUsageBytes,   \* this.memoryUsageBytes
    pagePos,            \* the content page the remote surface displays
    loops,              \* the _captureLoop invocations, by order of start
    savers,             \* the stopAndSave invocations, by order of call
    docs,               \* the documents written to ./output, oldest first
    events,             \* the events emitted on the event emitter (no logs)
    everPaused,         \* history: pauseCapture has been called
    nStops,             \* history: number of stopAndSave calls
    nDisc,              \* history: number of disconnections
    retryRun,           \* one call of retry() of src/lib/utils.js
    stabRun,            \* one call of waitForScreenToStabilize()
    batch,              \* the BatchProcessor (src/uninstall.sh, lines 190-391)
    overlayShown,       \* the control overlay of the page is visible
    request             \* the last download or delete request served

vars == <<state, browser, page, config, capturedImages, captureLoopActive,
          memoryUsageBytes, pagePos, loops, savers, docs, events,
          everPaused, nStops, nDisc, retryRun, stabRun, batch, overlayShown, request>>

States == {"IDLE", "READY", "CAPTURING", "PAUSED", "COMPLETED"}

LoopIds == 1..MaxLoops
SaverIds == 1..MaxStops

\* A loop slot: pc is the await the loop is suspended at ("none": not started,
\* "done": returned), i the loop index, buf the screenshot it holds.
\* waited and stopRequested are history: the loop has been suspended in the
\* pause wait; stopAndSave has been called since the loop started;
\* disconnected: the browser has disconnected since the loop started.
\* delay is the value the loop passed to sleep and format its local `format`
\* in the current iteration; began is history: config.delay and
\* config.imageFormat when the body of the current iteration began.
NoLoop ==
    [pc |-> "none", i |-> 0, buf |-> 0, waited |-> FALSE, stopRequested |-> FALSE,
     disconnected |-> FALSE, delay |-> 0, format |-> "none", began |-> [delay |-> 0, imageFormat |-> "none"]]
LoopRunning(l) == loops[l].pc \notin {"none", "done"}
RunningLoops == {l \in LoopIds : LoopRunning(l)}

\* A stopAndSave invocation: pc is the await it is suspended at ("none": not
\* called, "done": returned, "failed": it threw), k the embedding index, cur
\* the frame being embedded and curJpeg its isJpeg flag, format the local
\* `format`, doc the pages of its document so far, ocr its ocrResults (during processImages: the results so far).  A page has the
\* number k of the frame it was made from (history), the content page pos it
\* shows and its text layer (0: none).  An OCR text is 0 when empty, else
\* the content page it was recognised from.  The rest is history: frames
\* are the frames when stopAndSave was called, ocrReads the values read from
\* config.enableOcr, ocrFailed that processImages threw, skipped the frame
\* numbers whose embedding failed, textFailed those whose text layer could
\* not be drawn.
NoSaver ==
    [pc |-> "none", k |-> 0, cur |-> 0, curJpeg |-> FALSE, format |-> "none",
     doc |-> <<>>, ocr |-> <<>>,
     frames |-> <<>>, ocrReads |-> {}, ocrFailed |-> FALSE,
     skipped |-> {}, textFailed |-> {}]

\* ---------------------------------------------------------------- events
Progress(n) == [type |-> "progress", n |-> n, recoverable |-> "absent"]
Completed(n) == [type |-> "completed", n |-> n, recoverable |-> "absent"]
LoopError(n) == [type |-> "error", n |-> n, recoverable |-> "absent"]
\* DisconnectError marked as not recoverable.
DisconnectErrorFatal == [type |-> "error", n |-> 0, recoverable |-> "false"]

DisconnectError == [type |-> "error", n |-> 0, recoverable |-> "true"]

\* imgBuffer.length of the screenshot of content page p.
BufferLength(p) == p

\* The session's own variables (everything but the two calls below).
SessionVars == <<state, browser, page, config, capturedImages, captureLoopActive,
                 memoryUsageBytes, pagePos, loops, savers, docs, events,
                 everPaused, nStops, nDisc, overlayShown>>

\* A call of retry(fn, maxRetries, delayMs, onRetry): pc is "idle" (not
\* called), "fn" (awaiting fn()), "sleep" (awaiting sleep(delayMs)),
\* "returned" or "thrown"; attempt and lastError are its locals; result is
\* the value returned or the error thrown.  calls, outcomes and observed are
\* history: the invocations of fn, what each settled with, and the
\* (attempt, error) pairs the observer was called with.
NoRetry ==
    [pc |-> "idle", maxRetries |-> 0, hasObserver |-> FALSE, attempt |-> 0,
     lastError |-> "undefined", result |-> "none",
     calls |-> 0, outcomes |-> <<>>, observed |-> <<>>]

\* A call of waitForScreenToStabilize(): pc is "idle" (not called), "shot"
\* (awaiting page.screenshot), "sleep" (awaiting sleep(checkInterval)) or
\* "returned"; elapsed is Date.now() - startTime in ms; lastHash, stableCount
\* and checkInterval are its locals; warned tells that the warning was
\* logged.  The rest is history: endedBy is the exit taken, prevSig the
\* signature of the latest successful poll, run the length of the current
\* run of successive successful polls with one signature, allDiffer that no
\* successful poll has repeated the signature of the one before it.
NoStab ==
    [pc |-> "idle", elapsed |-> 0, lastHash |-> "null", stableCount |-> 0,
     checkInterval |-> 0, warned |-> FALSE,
     endedBy |-> "none", prevSig |-> "null", run |-> 0, allDiffer |-> TRUE]

\* The batch processor: queue, isProcessing, currentIndex and results are its
\* fields.  A queue item has the id addToQueue gave it, its url and status;
\* uid stands for the identity of the item object (the n-th item created),
\* which a loop holds across its awaits.  A result has success and, when
\* unsuccessful, the error message; uid is history: the item it belongs to.
\* runs are the startProcessing invocations by order of call: pc is the
\* await a loop is suspended at ("none": not called, "done": returned), i its
\* index, item the uid of `item`; cancelled is history: stopProcessing has
\* cleared the flag since the run started.  completes are the batch_complete
\* events, clock is Date.now(), made the number of items created so far;
\* clearThrew is history: a clearQueue call has thrown.
NoRun == [pc |-> "none", i |-> 0, item |-> 0, cancelled |-> FALSE]

NoBatch ==
    [queue |-> <<>>, isProcessing |-> FALSE, currentIndex |-> 0, results |-> <<>>,
     runs |-> [r \in 1..MaxRuns |-> NoRun], completes |-> <<>>,
     clock |-> 0, made |-> 0, clearThrew |-> FALSE]

\* No download or delete request has been served.
NoRequest == [op |-> "none", param |-> <<>>, filename |-> <<>>,
              filePath |-> [up |-> 0, down |-> 0], found |-> FALSE]

Init ==
    /\ state = "IDLE"
    /\ browser = FALSE
    /\ page = FALSE
    /\ config = [totalPages |-> DefaultTotalPages, enableOcr |-> FALSE,
                 delay |-> DefaultDelay, imageFormat |-> "png"]
    /\ capturedImages = <<>>
    /\ captureLoopActive = FALSE
    /\ memoryUsageBytes = 0
    /\ pagePos = 1
    /\ loops = [l \in LoopIds |-> NoLoop]
    /\ savers = [s \in SaverIds |-> NoSaver]
    /\ docs = <<>>
    /\ events = <<>>
    /\ everPaused = FALSE
    /\ nStops = 0
    /\ nDisc = 0
    /\ retryRun = NoRetry
    /\ stabRun = NoStab
    /\ batch = NoBatch
    /\ overlayShown = TRUE
    /\ request = NoRequest

\* ------------------------------------------------------- the capture loop
\* The catch block of the loop body, then the code after the loop: the error
\* event carries the 1-based page; the flag is cleared; nothing else is set.
Abort(l, i, st, ev) ==
    /\ loops' = [loops EXCEPT ![l] = [NoLoop EXCEPT !.pc = "done", !.waited = loops[l].waited]]
    /\ events' = Append(ev, LoopError(i + 1))
    /\ captureLoopActive' = FALSE
    /\ state' = st

\* The body of an iteration up to its first await: progress is emitted, then
\* this.page.bringToFront() is called (a TypeError when this.page is null).
BeginIteration(l, i, st, active, ev) ==
    IF ~page
    THEN Abort(l, i, st, Append(ev, Progress(i + 1)))
    ELSE /\ loops' = [loops EXCEPT ![l].pc = "front", ![l].i = i,
                                    ![l].began = [delay |-> config.delay,
                                                  imageFormat |-> config.imageFormat]]
         /\ events' = Append(ev, Progress(i + 1))
         /\ captureLoopActive' = active
         /\ state' = st

\* The code after the for loop: the completed event, when the flag is set.
ExitWhenFlagSet(l, st, active, ev) ==
    /\ loops' = [loops EXCEPT ![l] = [NoLoop EXCEPT !.pc = "done", !.waited = loops[l].waited]]
    /\ captureLoopActive' = active
    /\ IF active
       THEN /\ state' = "COMPLETED"
            /\ events' = Append(ev, Completed(Len(capturedImages)))
       ELSE /\ state' = st
            /\ events' = ev

\* LoopTop with the pause treated as the end of the loop (`break` on pause).
LoopTopBreakOnPause(l, i, total, st, active, ev) ==
    IF i >= total \/ ~active \/ st = "PAUSED"
    THEN ExitWhenFlagSet(l, st, active, ev)
    ELSE BeginIteration(l, i, st, active, ev)

\* LoopTop with the loop condition i <= totalPages.
LoopTopInclusive(l, i, total, st, active, ev) ==
    IF i > total \/ ~active
    THEN ExitWhenFlagSet(l, st, active, ev)
    ELSE IF st = "PAUSED"
         THEN /\ loops' = [loops EXCEPT ![l].pc = "pausewait", ![l].i = i, ![l].waited = TRUE]
              /\ events' = ev
              /\ captureLoopActive' = active
              /\ state' = st
         ELSE BeginIteration(l, i, st, active, ev)

\* The head of the for loop with index i, run to the next await: the loop
\* condition, the check of the flag, the first test of the pause wait.
LoopTop(l, i, total, st, active, ev) ==
    IF i >= total \/ ~active
    THEN ExitWhenFlagSet(l, st, active, ev)
    ELSE IF st = "PAUSED"
         THEN /\ loops' = [loops EXCEPT ![l].pc = "pausewait", ![l].i = i, ![l].waited = TRUE]
              /\ events' = ev
              /\ captureLoopActive' = active
              /\ state' = st
         ELSE BeginIteration(l, i, st, active, ev)

\* The 500 ms timer of the pause wait has fired and the while condition is
\* tested again.  Paused with the flag set, the loop sleeps again (no change);
\* otherwise the while loop is left, by its condition or by its `break`, and
\* the iteration body follows.
PauseWaitLeaves == ~(state = "PAUSED" /\ captureLoopActive)

LoopPauseWait(l) ==
    /\ loops[l].pc = "pausewait"
    /\ PauseWaitLeaves
    /\ BeginIteration(l, loops[l].i, state, captureLoopActive, events)
    /\ UNCHANGED <<browser, page, config, capturedImages, memoryUsageBytes,
                   pagePos, savers, docs, everPaused, nStops, nDisc, retryRun, stabRun, batch, overlayShown, request>>

\* bringToFront has resolved: sleep(config.delay) is awaited.
LoopFront(l) ==
    /\ loops[l].pc = "front"
    /\ page
    /\ loops' = [loops EXCEPT ![l].pc = "delay", ![l].delay = config.delay]
    /\ UNCHANGED <<state, browser, page, config, capturedImages, captureLoopActive,
                   memoryUsageBytes, pagePos, savers, docs, events,
                   everPaused, nStops, nDisc, retryRun, stabRun, batch, overlayShown, request>>

\* bringToFront has rejected: it is not retried.
LoopFrontFail(l) ==
    /\ loops[l].pc = "front"
    /\ Abort(l, loops[l].i, state, events)
    /\ UNCHANGED <<browser, page, config, capturedImages, memoryUsageBytes,
                   pagePos, savers, docs, everPaused, nStops, nDisc, retryRun, stabRun, batch, overlayShown, request>>

\* The per-page delay has elapsed: waitForScreenToStabilize is awaited.
LoopDelay(l) ==
    /\ loops[l].pc = "delay"
    /\ loops' = [loops EXCEPT ![l].pc = "stab"]
    /\ UNCHANGED <<state, browser, page, config, capturedImages, captureLoopActive,
                   memoryUsageBytes, pagePos, savers, docs, events,
                   everPaused, nStops, nDisc, retryRun, stabRun, batch, overlayShown, request>>

\* waitForScreenToStabilize has returned (stable, timed out or cancelled: it
\* catches its own errors and writes no field of the session); the
\* screenshot options are built from the config;
\* setOverlayVisibility(false) is awaited.
LoopStabilized(l) ==
    /\ loops[l].pc = "stab"
    /\ loops' = [loops EXCEPT ![l].pc = "hide", ![l].format = config.imageFormat]
    /\ UNCHANGED <<state, browser, page, config, capturedImages, captureLoopActive,
                   memoryUsageBytes, pagePos, savers, docs, events,
                   everPaused, nStops, nDisc, retryRun, stabRun, batch, overlayShown, request>>

\* What setOverlayVisibility(visible) leaves of the overlay: nothing is done
\* without a page.
OverlayAfter(visible, shown) == IF page THEN visible ELSE shown

\* The overlay is hidden: retry(page.screenshot) is awaited.
LoopHidden(l) ==
    /\ loops[l].pc = "hide"
    /\ loops' = [loops EXCEPT ![l].pc = "shot"]
    /\ overlayShown' = OverlayAfter(FALSE, overlayShown)
    /\ UNCHANGED <<state, browser, page, config, capturedImages, captureLoopActive,
                   memoryUsageBytes, pagePos, savers, docs, events,
                   everPaused, nStops, nDisc, retryRun, stabRun, batch, request>>

\* An attempt of the screenshot has succeeded (retry re-reads this.page at
\* every attempt): the buffer shows the page displayed;
\* setOverlayVisibility(true) is awaited.
LoopShot(l) ==
    /\ loops[l].pc = "shot"
    /\ page
    /\ loops' = [loops EXCEPT ![l].pc = "show", ![l].buf = pagePos]
    /\ UNCHANGED <<state, browser, page, config, capturedImages, captureLoopActive,
                   memoryUsageBytes, pagePos, savers, docs, events,
                   everPaused, nStops, nDisc, retryRun, stabRun, batch, overlayShown, request>>

\* Every attempt of the screenshot has failed: retry throws the last error.
LoopShotFail(l) ==
    /\ loops[l].pc = "shot"
    /\ Abort(l, loops[l].i, state, events)
    /\ UNCHANGED <<browser, page, config, capturedImages, memoryUsageBytes,
                   pagePos, savers, docs, everPaused, nStops, nDisc, retryRun, stabRun, batch, overlayShown, request>>

\* PushFrame with the new frame replacing the array.
PushFrameReplacing(frames, buf, format) == <<[pos |-> buf, isJpeg |-> format = "jpeg"]>>

\* The frame the loop appends.
PushFrame(frames, buf, format) == Append(frames, [pos |-> buf, isJpeg |-> format = "jpeg"])

\* The memory counter set to the length of the new buffer.
CountAfterPushReplacing(count, buf) == BufferLength(buf)

\* The memory counter after a push: memoryUsageBytes += imgBuffer.length.
CountAfterPush(count, buf) == count + BufferLength(buf)

\* The overlay is shown again: the frame is pushed, the memory counter
\* grows by its length, and retry(keyboard.press('ArrowRight')) is awaited.
LoopShown(l) ==
    /\ loops[l].pc = "show"
    /\ capturedImages' = PushFrame(capturedImages, loops[l].buf, loops[l].format)
    /\ memoryUsageBytes' = CountAfterPush(memoryUsageBytes, loops[l].buf)
    /\ loops' = [loops EXCEPT ![l].pc = "key", ![l].buf = 0]
    /\ overlayShown' = OverlayAfter(TRUE, overlayShown)
    /\ UNCHANGED <<state, browser, page, config, captureLoopActive,
                   pagePos, savers, docs, events, everPaused, nStops, nDisc, retryRun, stabRun, batch, request>>

\* The index of the iteration that follows iteration i.
NextIndex(i) == i + 1

\* The key press has succeeded: the surface shows the next page; i++ and the
\* head of the loop.
LoopKey(l) ==
    /\ loops[l].pc = "key"
    /\ page
    /\ pagePos' = pagePos + 1
    /\ LoopTop(l, NextIndex(loops[l].i), config.totalPages, state, captureLoopActive, events)
    /\ UNCHANGED <<browser, page, config, capturedImages, memoryUsageBytes,
                   savers, docs, everPaused, nStops, nDisc, retryRun, stabRun, batch, overlayShown, request>>

\* Every attempt of the key press has failed.
LoopKeyFail(l) ==
    /\ loops[l].pc = "key"
    /\ Abort(l, loops[l].i, state, events)
    /\ UNCHANGED <<browser, page, config, capturedImages, memoryUsageBytes,
                   pagePos, savers, docs, everPaused, nStops, nDisc, retryRun, stabRun, batch, overlayShown, request>>

\* --------------------------------------------------- control operations
\* launchBrowser: a no-op when a browser is connected; otherwise a browser is
\* attached, its first page becomes this.page and the state becomes READY.
\* The successful launch is one step: between its awaits launchBrowser writes
\* this.browser and this.page only, and the state last.
\* The state launchBrowser leaves: it returns at once when a browser is
\* connected, and sets READY at its end otherwise.
LaunchState(connected, st) == IF connected THEN st ELSE "READY"

Launch ==
    /\ state' = LaunchState(browser, state)
    /\ IF browser
       THEN UNCHANGED <<browser, page, pagePos, overlayShown>>
       ELSE /\ browser' = TRUE
            /\ page' = TRUE
            /\ pagePos' = 1
            /\ overlayShown' = TRUE
    /\ UNCHANGED <<config, capturedImages, captureLoopActive, memoryUsageBytes,
                   loops, savers, docs, events, everPaused, nStops, nDisc, retryRun, stabRun, batch, request>>

\* The 'disconnected' handler registered by launchBrowser.
Disconnect ==
    /\ browser
    /\ nDisc < MaxDisconnects
    /\ nDisc' = nDisc + 1
    /\ state' = "IDLE"
    /\ browser' = FALSE
    /\ page' = FALSE
    /\ events' = Append(events, DisconnectError)
    /\ loops' = [l \in LoopIds |->
                    IF LoopRunning(l) THEN [loops[l] EXCEPT !.disconnected = TRUE]
                    ELSE loops[l]]
    /\ UNCHANGED <<config, capturedImages, captureLoopActive, memoryUsageBytes,
                   pagePos, savers, docs, everPaused, nStops, retryRun, stabRun, batch, overlayShown, request>>

\* The guard of startCapture: it throws unless this holds.
StartAccepted == page /\ state # "IDLE"

\* The slot of the next loop to start.
FreeLoop == CHOOSE l \in LoopIds : loops[l].pc = "none" /\ \A m \in 1..(l - 1) : loops[m].pc # "none"

\* startCapture({totalPages: n}): rejected (nothing changes), or the config
\* is merged, the state and the flag are set and _captureLoop is called,
\* which runs to its first await before startCapture returns.
StartCapture(n) ==
    /\ \E l \in LoopIds : loops[l].pc = "none"
    /\ IF ~StartAccepted
       THEN UNCHANGED <<state, config, captureLoopActive, loops, events>>
       ELSE /\ config' = [config EXCEPT !.totalPages = n]
            /\ LoopTop(FreeLoop, Len(capturedImages), n, "CAPTURING", TRUE, events)
    /\ UNCHANGED <<browser, page, capturedImages, memoryUsageBytes, pagePos,
                   savers, docs, everPaused, nStops, nDisc, retryRun, stabRun, batch, overlayShown, request>>

\* pauseCapture: the state is set whatever it was.
PauseTarget(st) == "PAUSED"

PauseCapture ==
    /\ state' = PauseTarget(state)
    /\ everPaused' = TRUE
    /\ UNCHANGED <<browser, page, config, capturedImages, captureLoopActive,
                   memoryUsageBytes, pagePos, loops, savers, docs, events,
                   nStops, nDisc, retryRun, stabRun, batch, overlayShown, request>>

\* resumeCapture: only a paused session changes state.
ResumeCapture ==
    /\ state' = IF state = "PAUSED" THEN "CAPTURING" ELSE state
    /\ UNCHANGED <<browser, page, config, capturedImages, captureLoopActive,
                   memoryUsageBytes, pagePos, loops, savers, docs, events,
                   everPaused, nStops, nDisc, retryRun, stabRun, batch, overlayShown, request>>

\* ------------------------------------------------------------ stopAndSave
\* AfterFrameCheck without the early return.
AfterFrameCheckAlwaysSaves(frames) == "create"

\* Where stopAndSave stands after its check of the frame count: returned
\* ("done") with no frame, else awaiting PDFDocument.create().
AfterFrameCheck(frames) == IF Len(frames) = 0 THEN "done" ELSE "create"

\* stopAndSave up to its first await: the flag is cleared and the state set;
\* with no frame it returns, otherwise PDFDocument.create() is awaited.
StopAndSaveUpTo(n) ==
    /\ nStops < n
    /\ nStops' = nStops + 1
    /\ captureLoopActive' = FALSE
    /\ state' = "IDLE"
    /\ loops' = [l \in LoopIds |->
                    IF LoopRunning(l) THEN [loops[l] EXCEPT !.stopRequested = TRUE]
                    ELSE loops[l]]
    /\ savers' = [savers EXCEPT ![nStops + 1].pc = AfterFrameCheck(capturedImages),
                                 ![nStops + 1].format = config.imageFormat,
                                 ![nStops + 1].frames = capturedImages]
    /\ UNCHANGED <<browser, page, config, capturedImages, memoryUsageBytes,
                   pagePos, docs, events, everPaused, nDisc, retryRun, stabRun, batch, overlayShown, request>>

StopAndSave == StopAndSaveUpTo(MaxSaves)

\* stopAndSave called again, from the HTTP stop route or the overlay's stop
\* button, whether or not an earlier call has returned.
StopAndSaveAgain == StopAndSaveUpTo(MaxStops)

\* The embedding loop of stopAndSave at index k (0-based), run to its next
\* await: the loop condition reads the live array; frame k is read and its
\* embedding awaited, or the loop is over and (after the OCR worker is
\* terminated) pdfDoc.save() is awaited.
EmbedNext(sv, k) ==
    IF k < Len(capturedImages)
    THEN [sv EXCEPT !.pc = "embed", !.k = k, !.cur = capturedImages[k + 1].pos,
                    !.curJpeg = capturedImages[k + 1].isJpeg]
    ELSE [sv EXCEPT !.pc = "save", !.k = k, !.cur = 0, !.curJpeg = FALSE]

\* processImages at index j (0-based), run to its next await: the loop
\* condition reads the live array; extractText of frame j is awaited, or the
\* results are returned to stopAndSave and the embedding loop starts.
OcrNext(sv, j) ==
    IF j < Len(capturedImages)
    THEN [sv EXCEPT !.pc = "ocr", !.k = j, !.cur = capturedImages[j + 1].pos]
    ELSE EmbedNext(sv, 0)

\* The document is created: with OCR enabled processImages is called, else
\* the embedding loop starts with no OCR result.
SaveCreated(s) ==
    /\ savers[s].pc = "create"
    /\ LET sv == [savers[s] EXCEPT !.ocrReads = @ \cup {config.enableOcr}]
       IN  savers' = [savers EXCEPT ![s] =
                         IF config.enableOcr THEN OcrNext(sv, 0) ELSE EmbedNext(sv, 0)]
    /\ UNCHANGED <<state, browser, page, config, capturedImages, captureLoopActive,
                   memoryUsageBytes, pagePos, loops, docs, events,
                   everPaused, nStops, nDisc, retryRun, stabRun, batch, overlayShown, request>>

\* What extractText returns for a frame showing content page p: the text
\* recognised, or the empty text (nothing recognised, or recognize threw).
OcrTexts(p) == {0, p}

\* extractText of frame k has returned text t: the result is pushed.
SaveOcrRecognized(s, t) ==
    /\ savers[s].pc = "ocr"
    /\ t \in OcrTexts(savers[s].cur)
    /\ savers' = [savers EXCEPT ![s] =
                     OcrNext([savers[s] EXCEPT !.ocr = Append(@, t)], savers[s].k + 1)]
    /\ UNCHANGED <<state, browser, page, config, capturedImages, captureLoopActive,
                   memoryUsageBytes, pagePos, loops, docs, events,
                   everPaused, nStops, nDisc, retryRun, stabRun, batch, overlayShown, request>>

\* The OCR engine fails to initialise in the first extractText: it throws,
\* processImages rejects, stopAndSave logs it and goes on to the embedding
\* loop.
SaveOcrFail(s) ==
    /\ savers[s].pc = "ocr"
    /\ savers[s].k = 0
    /\ savers' = [savers EXCEPT ![s] =
                     EmbedNext([savers[s] EXCEPT !.ocr = <<>>,
                                   !.ocrFailed = TRUE], 0)]
    /\ UNCHANGED <<state, browser, page, config, capturedImages, captureLoopActive,
                   memoryUsageBytes, pagePos, loops, docs, events,
                   everPaused, nStops, nDisc, retryRun, stabRun, batch, overlayShown, request>>

\* The text of ocrResults[k] (0-based), 0 when there is no such result.
OcrTextAt(ocr, k) == IF k + 1 <= Len(ocr) THEN ocr[k + 1] ELSE 0

\* The page made from frame k, without its text layer.
PageOf(sv) == [k |-> sv.k + 1, pos |-> sv.cur, text |-> 0]

\* The decoder the embedding loop applies to a frame: embedJpg ("jpeg") when
\* the format read at the call is jpeg and the frame is flagged isJpeg, else
\* embedPng ("png").
Decoder(format, isJpeg) == IF format = "jpeg" /\ isJpeg THEN "jpeg" ELSE "png"

\* The encoding of the buffer of a frame.
Encoding(isJpeg) == IF isJpeg THEN "jpeg" ELSE "png"

\* Frame k is embedded (its buffer parsed by the decoder applied, which
\* rejects a buffer of the other encoding) and drawn on a new page of the
\* document; with OCR enabled and a non-empty text for frame k the font
\* embedding is awaited, else the loop goes on.
SaveEmbedded(s) ==
    /\ savers[s].pc = "embed"
    /\ Decoder(savers[s].format, savers[s].curJpeg) = Encoding(savers[s].curJpeg)
    /\ LET sv == [savers[s] EXCEPT !.doc = Append(@, PageOf(savers[s])),
                                   !.ocrReads = @ \cup {config.enableOcr}]
       IN  savers' = [savers EXCEPT ![s] =
                         IF config.enableOcr /\ OcrTextAt(sv.ocr, sv.k) # 0
                         THEN [sv EXCEPT !.pc = "font"]
                         ELSE EmbedNext(sv, sv.k + 1)]
    /\ UNCHANGED <<state, browser, page, config, capturedImages, captureLoopActive,
                   memoryUsageBytes, pagePos, loops, docs, events,
                   everPaused, nStops, nDisc, retryRun, stabRun, batch, overlayShown, request>>

\* The document after the embedding of a frame has failed, with a page
\* added for the frame all the same.
AfterEmbedFailBlankPage(doc, pg) == Append(doc, pg)

\* The document after the embedding of a frame has failed: no page.
AfterEmbedFail(doc, pg) == doc

\* The embedding of frame k rejects: it is logged and the loop goes on.
SaveEmbedFail(s) ==
    /\ savers[s].pc = "embed"
    /\ savers' = [savers EXCEPT ![s] =
                     EmbedNext([savers[s] EXCEPT
                                   !.doc = AfterEmbedFail(@, PageOf(savers[s])),
                                   !.skipped = @ \cup {savers[s].k + 1}],
                               savers[s].k + 1)]
    /\ UNCHANGED <<state, browser, page, config, capturedImages, captureLoopActive,
                   memoryUsageBytes, pagePos, loops, docs, events,
                   everPaused, nStops, nDisc, retryRun, stabRun, batch, overlayShown, request>>

\* The text drawn on the page of frame k (0-based): that of ocrResults[k].
TextLayer(sv) == OcrTextAt(sv.ocr, sv.k)

\* The font is embedded: the text of ocrResults[k] is drawn on the page.
SaveFontEmbedded(s) ==
    /\ savers[s].pc = "font"
    /\ LET n == Len(savers[s].doc)
       IN  savers' = [savers EXCEPT ![s] =
                         EmbedNext([savers[s] EXCEPT !.doc[n].text = TextLayer(savers[s])],
                                   savers[s].k + 1)]
    /\ UNCHANGED <<state, browser, page, config, capturedImages, captureLoopActive,
                   memoryUsageBytes, pagePos, loops, docs, events,
                   everPaused, nStops, nDisc, retryRun, stabRun, batch, overlayShown, request>>

\* embedFont rejects or drawText throws: ignored, the page has no text.
SaveFontFail(s) ==
    /\ savers[s].pc = "font"
    /\ savers' = [savers EXCEPT ![s] =
                     EmbedNext([savers[s] EXCEPT !.textFailed = @ \cup {savers[s].k + 1}],
                               savers[s].k + 1)]
    /\ UNCHANGED <<state, browser, page, config, capturedImages, captureLoopActive,
                   memoryUsageBytes, pagePos, loops, docs, events,
                   everPaused, nStops, nDisc, retryRun, stabRun, batch, overlayShown, request>>

\* POST /api/config with slide.delay = d.
SetDelay(d) ==
    /\ config' = [config EXCEPT !.delay = d]
    /\ UNCHANGED <<state, browser, page, capturedImages, captureLoopActive,
                   memoryUsageBytes, pagePos, loops, savers, docs, events,
                   everPaused, nStops, nDisc, retryRun, stabRun, batch, overlayShown, request>>

\* POST /api/config with capture.imageFormat = f.
SetImageFormat(f) ==
    /\ config' = [config EXCEPT !.imageFormat = f]
    /\ UNCHANGED <<state, browser, page, capturedImages, captureLoopActive,
                   memoryUsageBytes, pagePos, loops, savers, docs, events,
                   everPaused, nStops, nDisc, retryRun, stabRun, batch, overlayShown, request>>

\* POST /api/config with capture.enableOcr = b.
SetEnableOcr(b) ==
    /\ config' = [config EXCEPT !.enableOcr = b]
    /\ UNCHANGED <<state, browser, page, capturedImages, captureLoopActive,
                   memoryUsageBytes, pagePos, loops, savers, docs, events,
                   everPaused, nStops, nDisc, retryRun, stabRun, batch, overlayShown, request>>

\* stopAndSave throws before the file is written: nothing after the throw
\* runs, so the frames, the counter and the output directory stay as they are.
SaveThrows(s) ==
    /\ savers' = [savers EXCEPT ![s] = [NoSaver EXCEPT !.pc = "failed"]]
    /\ UNCHANGED <<state, browser, page, config, capturedImages, captureLoopActive,
                   memoryUsageBytes, pagePos, loops, docs, events,
                   everPaused, nStops, nDisc, retryRun, stabRun, batch, overlayShown, request>>

\* PDFDocument.create() rejects (or mkdirSync has thrown just before it).
SaveCreateFail(s) ==
    /\ savers[s].pc = "create"
    /\ SaveThrows(s)

\* pdfDoc.save() rejects, or writeFileSync throws.
SaveWriteFail(s) ==
    /\ savers[s].pc = "save"
    /\ SaveThrows(s)

\* The array stopAndSave leaves in this.capturedImages after the write.
FramesAfterSave(frames) == <<>>

\* pdfDoc.save() has resolved: the file is written, named with the OCR
\* suffix when OCR is enabled at that moment, then the reset.
SaveWritten(s) ==
    /\ savers[s].pc = "save"
    /\ docs' = Append(docs, [pages |-> savers[s].doc, ocrSuffix |-> config.enableOcr])
    /\ capturedImages' = FramesAfterSave(capturedImages)
    /\ memoryUsageBytes' = 0
    /\ savers' = [savers EXCEPT ![s] = [NoSaver EXCEPT !.pc = "done"]]
    /\ UNCHANGED <<state, browser, page, config, captureLoopActive,
                   pagePos, loops, events, everPaused, nStops, nDisc, retryRun, stabRun, batch, overlayShown, request>>

\* ------------------------------------------------------- retry (utils.js)
\* What fn() may reject with, and what it may resolve with.
Errors == {"e1", "e2"}
Values == {"v1", "v2"}

\* The failures among the settled invocations of fn.
Failures(outcomes) == {j \in 1..Len(outcomes) : outcomes[j] \in Errors}

\* RetryAgain with the last attempt included.
RetryAgainInclusive(attempt, maxRetries) == attempt <= maxRetries

\* `if (attempt < maxRetries)`: the failed attempt is not the last one.
RetryAgain(attempt, maxRetries) == attempt < maxRetries

\* retry(fn, n, delayMs, onRetry) is called and runs to its first await:
\* with n >= 1 the first attempt invokes fn; with n < 1 the loop body
\* never runs and lastError (undefined) is thrown.
RetryCall(n, withObserver) ==
    /\ retryRun.pc = "idle"
    /\ retryRun' = IF 1 <= n
                   THEN [retryRun EXCEPT !.pc = "fn", !.maxRetries = n,
                                         !.hasObserver = withObserver,
                                         !.attempt = 1, !.calls = 1]
                   ELSE [retryRun EXCEPT !.pc = "thrown", !.maxRetries = n,
                                         !.hasObserver = withObserver,
                                         !.attempt = 1, !.result = retryRun.lastError]
    /\ UNCHANGED <<SessionVars, stabRun, batch, request>>

\* fn() resolves with v: `return await fn()`.
RetryFnResolves(v) ==
    /\ retryRun.pc = "fn"
    /\ retryRun' = [retryRun EXCEPT !.pc = "returned", !.result = v,
                                    !.outcomes = Append(@, v)]
    /\ UNCHANGED <<SessionVars, stabRun, batch, request>>

\* fn() rejects with e: the catch block stores the error; before the last
\* attempt the observer (when given) is called and sleep(delayMs) awaited;
\* after the last attempt the loop ends and lastError is thrown.
RetryFnRejects(e) ==
    /\ retryRun.pc = "fn"
    /\ retryRun' =
         IF RetryAgain(retryRun.attempt, retryRun.maxRetries)
         THEN [retryRun EXCEPT !.pc = "sleep", !.lastError = e,
                               !.outcomes = Append(@, e),
                               !.observed = IF retryRun.hasObserver
                                            THEN Append(@, <<retryRun.attempt, e>>)
                                            ELSE @]
         ELSE [retryRun EXCEPT !.pc = "thrown", !.lastError = e,
                               !.outcomes = Append(@, e),
                               !.attempt = @ + 1, !.result = e]
    /\ UNCHANGED <<SessionVars, stabRun, batch, request>>

\* sleep(delayMs) is over: attempt++ and, the loop condition holding, the
\* next attempt invokes fn; else the loop ends and lastError is thrown.
RetrySleepDone ==
    /\ retryRun.pc = "sleep"
    /\ retryRun' = IF retryRun.attempt + 1 <= retryRun.maxRetries
                   THEN [retryRun EXCEPT !.pc = "fn", !.attempt = @ + 1, !.calls = @ + 1]
                   ELSE [retryRun EXCEPT !.pc = "thrown", !.attempt = @ + 1,
                                         !.result = retryRun.lastError]
    /\ UNCHANGED <<SessionVars, stabRun, batch, request>>

\* ------------------------------------------- waitForScreenToStabilize
\* The signatures computeSimpleHash yields for the screens a poll may see.
Hashes == {"a", "b"}

\* The time a page.screenshot call of a poll takes to settle, in ms.
ShotDurations == {0, ShotMs}

\* `Math.min(checkInterval * 1.3, maxInterval)`.
GrowInterval(c) ==
    LET g == (c * 13) \div 10
    IN  IF g < MaxInterval THEN g ELSE MaxInterval

\* IsStable with one match taken as enough.
IsStableAtFirstMatch(count) == count >= 1

\* `if (stableCount >= requiredStableCount)`.
IsStable(count) == count >= RequiredStableCount

\* TimedOut after one base interval.
TimedOutEarly(elapsed) == elapsed >= BaseInterval

\* The negation of the while condition `Date.now() - startTime < timeout`.
TimedOut(elapsed) == elapsed >= StabTimeout

\* The head of the while loop, run to the next await or to the return: the
\* loop ends at the timeout, or by `break` when the flag is cleared, and the
\* warning is logged; else this.page.screenshot is called, which throws into
\* the empty catch block when this.page is null, and then sleep is awaited.
StabHead(r) ==
    IF TimedOut(r.elapsed)
    THEN [r EXCEPT !.pc = "returned", !.warned = TRUE, !.endedBy = "timeout"]
    ELSE IF ~captureLoopActive
    THEN [r EXCEPT !.pc = "returned", !.warned = TRUE, !.endedBy = "cancel"]
    ELSE IF ~page
    THEN [r EXCEPT !.pc = "sleep"]
    ELSE [r EXCEPT !.pc = "shot"]

\* The capture loop calls waitForScreenToStabilize() (default timeout and
\* base interval), which runs to its first await.  The call is made by the
\* continuation of sleep(config.delay), LoopDelay; an operation that comes
\* between the two steps here comes during that sleep in the program.
StabCall ==
    /\ stabRun.pc = "idle"
    /\ \E l \in LoopIds : loops[l].pc = "stab"
    /\ stabRun' = StabHead([NoStab EXCEPT !.checkInterval = BaseInterval])
    /\ UNCHANGED <<SessionVars, retryRun, batch, request>>

\* The screenshot of a poll resolves after d ms with a buffer of signature
\* h: the comparison with lastHash, then the return or sleep(checkInterval).
StabPoll(h, d) ==
    /\ stabRun.pc = "shot"
    /\ page
    /\ LET r == [stabRun EXCEPT !.elapsed = @ + d,
                                !.prevSig = h,
                                !.run = IF h = stabRun.prevSig THEN @ + 1 ELSE 1,
                                !.allDiffer = @ /\ h # stabRun.prevSig]
           matches == r.lastHash # "null" /\ h = r.lastHash
       IN  stabRun' =
             IF matches /\ IsStable(r.stableCount + 1)
             THEN [r EXCEPT !.pc = "returned", !.stableCount = @ + 1,
                            !.endedBy = "stable"]
             ELSE IF matches
             THEN [r EXCEPT !.pc = "sleep", !.stableCount = @ + 1,
                            !.checkInterval = GrowInterval(@), !.lastHash = h]
             ELSE [r EXCEPT !.pc = "sleep", !.stableCount = 0,
                            !.checkInterval = BaseInterval, !.lastHash = h]
    /\ UNCHANGED <<SessionVars, retryRun, batch, request>>

\* The screenshot of a poll rejects after d ms: the empty catch block, then
\* sleep(checkInterval); lastHash and stableCount stay.
StabPollFail(d) ==
    /\ stabRun.pc = "shot"
    /\ stabRun' = [stabRun EXCEPT !.pc = "sleep", !.elapsed = @ + d]
    /\ UNCHANGED <<SessionVars, retryRun, batch, request>>

\* sleep(checkInterval) is over: the head of the loop again.
StabSleepDone ==
    /\ stabRun.pc = "sleep"
    /\ stabRun' = StabHead([stabRun EXCEPT !.elapsed = @ + stabRun.checkInterval])
    /\ UNCHANGED <<SessionVars, retryRun, batch, request>>

\* The steps of the detector.
StabStep ==
    \/ StabCall
    \/ \E h \in Hashes, d \in ShotDurations : StabPoll(h, d)
    \/ \E d \in ShotDurations : StabPollFail(d)
    \/ StabSleepDone

\* ----------------------------------------- BatchProcessor (uninstall.sh)
RunIds == 1..MaxRuns
RunActive(b, r) == b.runs[r].pc \notin {"none", "done"}
ActiveRuns == {r \in RunIds : RunActive(batch, r)}

\* The url inputs, and the lists of urls a caller passes to addToQueue.
Urls == {"A", "B"}
UrlLists == UNION {[1..n -> Urls] : n \in 1..MaxAdd}

\* The messages of the errors an item can fail with: session.page is null at
\* the test, goto rejects, session.page is null after the settle wait,
\* mkdirSync or screenshot throws.
BatchErrors == {"Browser not launched", "navigation", "TypeError", "screenshot"}

\* getStatus(): the snapshot a batch_complete event carries.
GetStatus(b) ==
    [isProcessing |-> b.isProcessing,
     total |-> Len(b.queue),
     completed |-> Len(b.results),
     current |-> b.currentIndex,
     queue |-> [k \in 1..Len(b.queue) |->
                  [id |-> b.queue[k].id, url |-> b.queue[k].url,
                   status |-> b.queue[k].status]],
     results |-> b.results]

\* `item.status = st` on the item object uid, wherever it is in the queue
\* (nowhere when the queue was replaced meanwhile).
SetStatus(queue, uid, st) ==
    [k \in 1..Len(queue) |->
        IF queue[k].uid = uid THEN [queue[k] EXCEPT !.status = st] ELSE queue[k]]

\* The code after the for loop: the flag is cleared, batch_complete emitted.
BatchFinish(b, r) ==
    LET c == [b EXCEPT !.isProcessing = FALSE, !.runs[r].pc = "done"]
    IN  [c EXCEPT !.completes = Append(@, [run |-> r, status |-> GetStatus(c)])]

RECURSIVE BatchHead(_, _, _)

\* The end of an iteration: the wait between urls when another item follows
\* and the flag is set, else i++ and the head of the loop.
BatchAfterItem(b, r, i) ==
    IF i < Len(b.queue) - 1 /\ b.isProcessing
    THEN [b EXCEPT !.runs[r].pc = "delay", !.runs[r].i = i]
    ELSE BatchHead(b, r, i + 1)

\* The item of run r ends with status st and result res, which is pushed.
BatchItemEnds(b, r, i, st, res) ==
    BatchAfterItem(
        [b EXCEPT !.queue = SetStatus(@, b.runs[r].item, st),
                  !.results = Append(@, res)],
        r, i)

\* The catch block: the item is failed with the message of the error.
BatchItemFails(b, r, i, msg) ==
    BatchItemEnds(b, r, i, "failed",
                  [success |-> FALSE, error |-> msg, uid |-> b.runs[r].item])

\* The head of the for loop at index i, run to the next await: the loop ends
\* when the queue is exhausted or the flag is cleared; else item i is marked
\* processing and page.goto awaited, or, with no page, the item fails.
BatchHead(b, r, i) ==
    IF i >= Len(b.queue) \/ ~b.isProcessing
    THEN BatchFinish(b, r)
    ELSE LET c == [b EXCEPT !.currentIndex = i,
                            !.queue[i + 1].status = "processing",
                            !.runs[r].i = i,
                            !.runs[r].item = b.queue[i + 1].uid]
         IN  IF page
             THEN [c EXCEPT !.runs[r].pc = "goto"]
             ELSE BatchItemFails(c, r, i, "Browser not launched")

\* Date.now() advances.
Tick ==
    /\ batch.clock < MaxClock
    /\ batch' = [batch EXCEPT !.clock = @ + 1]
    /\ UNCHANGED <<SessionVars, retryRun, stabRun, request>>

\* The ids addToQueue gives n new items at clock value t: Date.now() + idx.
NewIds(t, n) == [idx \in 1..n |-> t + (idx - 1)]

\* addToQueue(urls): the new items are appended, pending.
AddToQueue(urls) ==
    /\ batch.made + Len(urls) <= MaxItems
    /\ LET ids == NewIds(batch.clock, Len(urls))
           newItems == [idx \in 1..Len(urls) |->
                           [uid |-> batch.made + idx, id |-> ids[idx],
                            url |-> urls[idx], status |-> "pending"]]
       IN  batch' = [batch EXCEPT !.queue = @ \o newItems,
                                  !.made = @ + Len(urls)]
    /\ UNCHANGED <<SessionVars, retryRun, stabRun, request>>

\* ClearedBatch without the test of isProcessing.
ClearedBatchAlways(b) ==
    [b EXCEPT !.queue = <<>>, !.results = <<>>, !.currentIndex = 0]

\* What clearQueue leaves: it throws while processing, else it resets.
ClearedBatch(b) ==
    IF b.isProcessing THEN [b EXCEPT !.clearThrew = TRUE]
    ELSE [b EXCEPT !.queue = <<>>, !.results = <<>>, !.currentIndex = 0]

ClearQueue ==
    /\ batch' = ClearedBatch(batch)
    /\ UNCHANGED <<SessionVars, retryRun, stabRun, request>>

\* The guard of startProcessing: it throws unless this holds.
StartProcessingAccepted == ~batch.isProcessing /\ Len(batch.queue) > 0

\* The slot of the next run.
FreeRun == CHOOSE r \in RunIds : batch.runs[r].pc = "none" /\ \A m \in 1..(r - 1) : batch.runs[m].pc # "none"

\* startProcessing(): rejected (nothing changes), or the flag is set, the
\* index and the results reset, and the loop runs to its first await.
StartProcessing ==
    /\ \E r \in RunIds : batch.runs[r].pc = "none"
    /\ batch' = IF ~StartProcessingAccepted THEN batch
                ELSE BatchHead([batch EXCEPT !.isProcessing = TRUE,
                                             !.currentIndex = 0,
                                             !.results = <<>>],
                               FreeRun, 0)
    /\ UNCHANGED <<SessionVars, retryRun, stabRun, request>>

\* stopProcessing(): the flag is cleared when it is set.
StopProcessing ==
    /\ batch' = IF batch.isProcessing
                THEN [batch EXCEPT !.isProcessing = FALSE,
                                   !.runs = [r \in RunIds |->
                                               IF RunActive(batch, r)
                                               THEN [@[r] EXCEPT !.cancelled = TRUE]
                                               ELSE @[r]]]
                ELSE batch
    /\ UNCHANGED <<SessionVars, retryRun, stabRun, request>>

\* page.goto resolves: the 2 s settle wait is awaited.
BatchGotoDone(r) ==
    /\ batch.runs[r].pc = "goto"
    /\ page
    /\ batch' = [batch EXCEPT !.runs[r].pc = "settle"]
    /\ UNCHANGED <<SessionVars, retryRun, stabRun, request>>

\* page.goto rejects: the item fails.
BatchGotoFail(r) ==
    /\ batch.runs[r].pc = "goto"
    /\ batch' = BatchItemFails(batch, r, batch.runs[r].i, "navigation")
    /\ UNCHANGED <<SessionVars, retryRun, stabRun, request>>

\* The settle wait is over: this.session.page.screenshot is called, a
\* TypeError when the page is null meanwhile.
BatchSettled(r) ==
    /\ batch.runs[r].pc = "settle"
    /\ batch' = IF page
                THEN [batch EXCEPT !.runs[r].pc = "shot"]
                ELSE BatchItemFails(batch, r, batch.runs[r].i, "TypeError")
    /\ UNCHANGED <<SessionVars, retryRun, stabRun, request>>

\* The screenshot is written: the item is completed.
BatchShotDone(r) ==
    /\ batch.runs[r].pc = "shot"
    /\ page
    /\ batch' = BatchItemEnds(batch, r, batch.runs[r].i, "completed",
                              [success |-> TRUE, error |-> "", uid |-> batch.runs[r].item])
    /\ UNCHANGED <<SessionVars, retryRun, stabRun, request>>

\* mkdirSync or the screenshot throws: the item fails.
BatchShotFail(r) ==
    /\ batch.runs[r].pc = "shot"
    /\ batch' = BatchItemFails(batch, r, batch.runs[r].i, "screenshot")
    /\ UNCHANGED <<SessionVars, retryRun, stabRun, request>>

\* The wait between urls is over: i++ and the head of the loop.
BatchDelayDone(r) ==
    /\ batch.runs[r].pc = "delay"
    /\ batch' = BatchHead(batch, r, batch.runs[r].i + 1)
    /\ UNCHANGED <<SessionVars, retryRun, stabRun, request>>

BatchStep(r) ==
    \/ BatchGotoDone(r)
    \/ BatchGotoFail(r)
    \/ BatchSettled(r)
    \/ BatchShotDone(r)
    \/ BatchShotFail(r)
    \/ BatchDelayDone(r)

\* ------------------------------------- sanitizeFilename and its endpoints
\* A file name is a sequence of characters.  Chars has one character of
\* each kind sanitizeFilename tells apart: the two slashes, the dot, one of
\* the characters of its third replace, and one it keeps.
Chars == {"/", "\\", ".", ":", "a"}

Names == UNION {[1..n -> Chars] : n \in 0..MaxNameLen}

Slashes == {"/", "\\"}

InvalidChars == {"<", ">", ":", "\"", "|", "?", "*"}

SliceLimit == 255

\* s.replace(/[cs]/g, ''): every character of cs is removed.
RemoveChars(s, cs) == SelectSeq(s, LAMBDA c : c \notin cs)

\* s.replace(/\.\./g, ''): the matches are found from left to right in s
\* and do not overlap; the result is not scanned again.
RECURSIVE RemoveDoubleDots(_)
RemoveDoubleDots(s) ==
    IF Len(s) < 2 THEN s
    ELSE IF s[1] = "." /\ s[2] = "." THEN RemoveDoubleDots(SubSeq(s, 3, Len(s)))
    ELSE <<s[1]>> \o RemoveDoubleDots(Tail(s))

\* s.slice(0, n)
Slice(s, n) == SubSeq(s, 1, IF Len(s) < n THEN Len(s) ELSE n)

sanitizeFilename(filename) ==
    Slice(RemoveChars(RemoveDoubleDots(RemoveChars(filename, Slashes)), InvalidChars),
          SliceLimit)

\* The segments of a path, split at "/".
RECURSIVE Segments(_, _)
Segments(s, cur) ==
    IF s = <<>> THEN <<cur>>
    ELSE IF s[1] = "/" THEN <<cur>> \o Segments(Tail(s), <<>>)
    ELSE Segments(Tail(s), Append(cur, s[1]))

\* path.join(OUTPUT_DIR, filename), relative to OUTPUT_DIR: up is the number
\* of directories the normalised path climbs above OUTPUT_DIR, down the
\* number of segments it then descends.  Empty and "." segments are dropped,
\* a ".." segment removes the segment before it or climbs.
RECURSIVE JoinFrom(_, _, _)
JoinFrom(segs, up, down) ==
    IF segs = <<>> THEN [up |-> up, down |-> down]
    ELSE IF segs[1] \in {<<>>, <<".">>} THEN JoinFrom(Tail(segs), up, down)
    ELSE IF segs[1] = <<".", ".">>
         THEN IF down > 0 THEN JoinFrom(Tail(segs), up, down - 1)
              ELSE JoinFrom(Tail(segs), up + 1, down)
    ELSE JoinFrom(Tail(segs), up, down + 1)

PathJoin(filename) == JoinFrom(Segments(filename, <<>>), 0, 0)

\* What fs.existsSync(filePath) can answer: OUTPUT_DIR and the directories
\* above it exist, a path below OUTPUT_DIR may or may not.
Exists(filePath) == IF filePath.down = 0 THEN {TRUE} ELSE BOOLEAN

\* A request for op with :filename = param, up to the existsSync test; a
\* path that is found is handed to res.download or to fs.unlinkSync.
Served(op, param) ==
    LET filename == sanitizeFilename(param)
        filePath == PathJoin(filename)
    IN  /\ \E found \in Exists(filePath) :
              request' = [op |-> op, param |-> param, filename |-> filename,
                          filePath |-> filePath, found |-> found]
        /\ UNCHANGED <<SessionVars, retryRun, stabRun, batch>>

\* GET /api/download/:filename
Download(param) == Served("download", param)

\* DELETE /api/history/:filename
DeleteHistory(param) == Served("delete", param)

\* ---------------------------------------------------------- specifications
LoopStep(l) ==
    \/ LoopPauseWait(l)
    \/ LoopFront(l)
    \/ LoopDelay(l)
    \/ LoopStabilized(l)
    \/ LoopHidden(l)
    \/ LoopShot(l)
    \/ LoopShown(l)
    \/ LoopKey(l)

LoopFail(l) ==
    \/ LoopFrontFail(l)
    \/ LoopShotFail(l)
    \/ LoopKeyFail(l)

SaveStep(s) ==
    \/ SaveCreated(s)
    \/ SaveEmbedded(s)
    \/ SaveWritten(s)
    \/ SaveCreateFail(s)
    \/ SaveWriteFail(s)

\* Every operation of the session, in every interleaving.
Next ==
    \/ Launch
    \/ Disconnect
    \/ \E n \in 1..MaxPages : StartCapture(n)
    \/ PauseCapture
    \/ ResumeCapture
    \/ StopAndSave
    \/ \E l \in LoopIds : LoopStep(l)
    \/ \E l \in LoopIds : LoopFail(l)
    \/ \E s \in SaverIds : SaveStep(s)

Spec == Init /\ [][Next]_vars

\* One capture run in which every action succeeds: a launch, one
\* startCapture, the loop, and pause and resume at any point.
FirstStart(n) == loops[1].pc = "none" /\ StartCapture(n)

NextRun ==
    \/ Launch
    \/ \E n \in 1..MaxRunPages : FirstStart(n)
    \/ PauseCapture
    \/ ResumeCapture
    \/ \E l \in LoopIds : LoopStep(l)

SpecRun == Init /\ [][NextRun]_vars

\* A session in which startCapture is accepted once: one capture loop, with
\* every other operation, failure and disconnection.
NextSingle ==
    \/ Launch
    \/ Disconnect
    \/ \E n \in 1..MaxPages : FirstStart(n)
    \/ PauseCapture
    \/ ResumeCapture
    \/ StopAndSave
    \/ \E l \in LoopIds : LoopStep(l)
    \/ \E l \in LoopIds : LoopFail(l)
    \/ \E s \in SaverIds : SaveStep(s)

SpecSingle == Init /\ [][NextSingle]_vars

\* The assembly of the document: one capture loop with pause and resume,
\* stopAndSave at any point, OCR switched on and off at any time, and every
\* failure of the OCR engine, of an embedding and of a text layer.
AssemblyStep(s) ==
    \/ \E t \in 0..MaxPages : SaveOcrRecognized(s, t)
    \/ SaveOcrFail(s)
    \/ SaveEmbedFail(s)
    \/ SaveFontEmbedded(s)
    \/ SaveFontFail(s)

NextSave ==
    \/ Launch
    \/ \E n \in 1..MaxPages : FirstStart(n)
    \/ \E b \in BOOLEAN : SetEnableOcr(b)
    \/ PauseCapture
    \/ ResumeCapture
    \/ StopAndSave
    \/ \E l \in LoopIds : LoopStep(l)
    \/ \E s \in SaverIds : SaveStep(s)
    \/ \E s \in SaverIds : AssemblyStep(s)

SpecSave == Init /\ [][NextSave]_vars

\* One capture loop and stopAndSave called more than once, at any point.
NextStops ==
    \/ Launch
    \/ \E n \in 1..MaxPages : FirstStart(n)
    \/ PauseCapture
    \/ ResumeCapture
    \/ StopAndSaveAgain
    \/ \E l \in LoopIds : LoopStep(l)
    \/ \E s \in SaverIds : SaveStep(s)

SpecStops == Init /\ [][NextStops]_vars

\* The session under configuration updates: one capture loop with pause and
\* resume, the delay and the image format set at any time, stopAndSave and
\* the assembly with the failure of an embedding.
Delays == {0, DefaultDelay}
ImageFormats == {"png", "jpeg"}

NextConfig ==
    \/ Launch
    \/ \E n \in 1..MaxPages : FirstStart(n)
    \/ \E d \in Delays : SetDelay(d)
    \/ \E f \in ImageFormats : SetImageFormat(f)
    \/ PauseCapture
    \/ ResumeCapture
    \/ StopAndSave
    \/ \E l \in LoopIds : LoopStep(l)
    \/ \E s \in SaverIds : SaveStep(s)
    \/ \E s \in SaverIds : SaveEmbedFail(s)

SpecConfig == Init /\ [][NextConfig]_vars

\* The same with stopAndSave only called when no capture loop is running.
StopAndSaveIdle == RunningLoops = {} /\ StopAndSave

NextSaveIdle ==
    \/ Launch
    \/ \E n \in 1..MaxPages : FirstStart(n)
    \/ \E b \in BOOLEAN : SetEnableOcr(b)
    \/ PauseCapture
    \/ ResumeCapture
    \/ StopAndSaveIdle
    \/ \E l \in LoopIds : LoopStep(l)
    \/ \E s \in SaverIds : SaveStep(s)
    \/ \E s \in SaverIds : AssemblyStep(s)

SpecSaveIdle == Init /\ [][NextSaveIdle]_vars

\* One call of retry with any maxRetries in 0..MaxAttempts, with or without
\* an observer, and an fn that resolves or rejects at each invocation.
NextRetry ==
    \/ \E n \in 0..MaxAttempts, o \in BOOLEAN : RetryCall(n, o)
    \/ \E v \in Values : RetryFnResolves(v)
    \/ \E e \in Errors : RetryFnRejects(e)
    \/ RetrySleepDone

SpecRetry == Init /\ [][NextRetry]_vars

\* The detector call of the first iteration of a capture loop, poll by poll,
\* with the operations that reach what it reads: stopAndSave clears the
\* flag, a disconnection nulls this.page, a launch sets it again.
NextStab ==
    \/ Launch
    \/ Disconnect
    \/ \E n \in 1..MaxPages : FirstStart(n)
    \/ StopAndSave
    \/ \E l \in LoopIds : LoopFront(l)
    \/ \E l \in LoopIds : LoopDelay(l)
    \/ StabStep

SpecStab == Init /\ [][NextStab]_vars

\* The same with the event loop's scheduling: a timer that was set fires and
\* a screenshot call settles (the protocol call resolves, rejects or times
\* out), so a detector step that stays possible is eventually taken.
SpecStabFair == SpecStab /\ WF_vars(StabStep)

\* The batch processor under every interleaving of its operations with its
\* loops and with the launch and the loss of the browser page it borrows
\* (the clock stands still: the ids play no part in the loop).
NextBatch ==
    \/ Launch
    \/ Disconnect
    \/ \E n \in 1..MaxAdd : AddToQueue([k \in 1..n |-> "A"])
    \/ ClearQueue
    \/ StartProcessing
    \/ StopProcessing
    \/ \E r \in RunIds : BatchStep(r)

SpecBatch == Init /\ [][NextBatch]_vars

\* The queue alone: addToQueue and clearQueue at any clock values.
NextQueue ==
    \/ Tick
    \/ \E urls \in UrlLists : AddToQueue(urls)
    \/ ClearQueue

SpecQueue == Init /\ [][NextQueue]_vars

\* The batch processor when startProcessing is only called between runs.
StartProcessingSerial == ActiveRuns = {} /\ StartProcessing

NextBatchSerial ==
    \/ Launch
    \/ Disconnect
    \/ \E n \in 1..MaxAdd : AddToQueue([k \in 1..n |-> "A"])
    \/ ClearQueue
    \/ StartProcessingSerial
    \/ StopProcessing
    \/ \E r \in RunIds : BatchStep(r)

SpecBatchSerial == Init /\ [][NextBatchSerial]_vars

\* The two endpoints that take a file name, called with every name.
NextFiles ==
    \E param \in Names : Download(param) \/ DeleteHistory(param)

SpecFiles == Init /\ [][NextFiles]_vars


\* ------------------------------------------------------------------ claims
\* C1: at most one capture loop is active per session at any time; a
\* startCapture issued while a loop is still running starts no second loop.
C1_AtMostOneLoop == Cardinality(RunningLoops) <= 1

\* The edges of the specified state machine.
Edges ==
    {<<"IDLE", "READY">>, <<"READY", "CAPTURING">>, <<"CAPTURING", "PAUSED">>,
     <<"PAUSED", "CAPTURING">>, <<"CAPTURING", "COMPLETED">>}
    \cup {<<s, "IDLE">> : s \in States}

\* C2: the state is always one of the five states, and every change of state
\* follows an edge of the specified state machine.
C2_OnlySpecifiedEdges ==
    /\ [](state \in States)
    /\ [][state' # state => <<state, state'>> \in Edges]_vars

\* C3: a startCapture made when the state is Idle, Paused or Completed is
\* rejected: it changes neither the state, the configuration, the frames nor
\* the active-loop flag.
C3_StartRejectedUnlessReady ==
    [][(/\ state \in {"IDLE", "PAUSED", "COMPLETED"}
        /\ \E n \in 1..MaxPages : StartCapture(n))
       => UNCHANGED <<state, config, capturedImages, captureLoopActive>>]_vars

\* C4: once pauseCapture has been called during an active capture loop, no
\* frame is appended until resumeCapture is called: while the session stays
\* Paused with the flag set and a loop running, the frame sequence does not grow.
C4_NoFrameWhilePaused ==
    [][(/\ state = "PAUSED" /\ state' = "PAUSED"
        /\ captureLoopActive
        /\ RunningLoops # {})
       => Len(capturedImages') <= Len(capturedImages)]_vars

\* Frame k shows content page k: no page is skipped or captured twice.
FramesInPageOrder == \A k \in 1..Len(capturedImages) : capturedImages[k].pos = k

\* The index of a running loop is the index of the next frame to append.
IndexIsNextFrame ==
    \A l \in LoopIds : LoopRunning(l) =>
        loops[l].i = Len(capturedImages) - (IF loops[l].pc = "key" THEN 1 ELSE 0)

\* The step in which loop l returns.
LoopReturns(l) == loops[l].pc # "done" /\ loops'[l].pc = "done"

\* C5: in a run where every action succeeds, under any interleaving of pause
\* and resume, the loop goes on from the exact next page index (no page
\* skipped or captured twice) and ends Completed with totalPages frames.
C5_ResumeContinuesExactly ==
    /\ [](FramesInPageOrder /\ IndexIsNextFrame)
    /\ [](loops[1].pc = "done" => Len(capturedImages) = config.totalPages)
    /\ [][LoopReturns(1) => state' = "COMPLETED"]_vars

\* A run of at least two pages that was suspended in the pause wait, resumed
\* and has ended.
C5_Witness ==
    /\ loops[1].pc = "done"
    /\ loops[1].waited
    /\ config.totalPages >= 2
    /\ Len(capturedImages) = config.totalPages

\* C6: a run of N >= 1 pages from a launched session with no frames, every
\* action succeeding and no pause, stop or disconnect, ends in state
\* Completed with exactly N frames.
C6_RunEndsCompletedWithN ==
    (loops[1].pc = "done" /\ ~everPaused /\ nStops = 0 /\ nDisc = 0)
        => (state = "COMPLETED" /\ Len(capturedImages) = config.totalPages)

\* A run of MaxRunPages pages has ended and pauseCapture was never called.
C6_Witness ==
    /\ loops[1].pc = "done"
    /\ ~everPaused
    /\ config.totalPages = MaxRunPages
    /\ Len(capturedImages) = MaxRunPages
    /\ state = "COMPLETED"

\* C7: whenever the state is Capturing, the number of frames is at most
\* config.totalPages.
C7_FramesWithinTotal == state = "CAPTURING" => Len(capturedImages) <= config.totalPages

\* The events of a run of n pages: progress 1..n, then completed n.
RunEvents(n) == [k \in 1..(n + 1) |-> IF k <= n THEN Progress(k) ELSE Completed(n)]

IsPrefix(s, t) == Len(s) <= Len(t) /\ \A k \in 1..Len(s) : s[k] = t[k]

\* Loop l emits the completed event in this step.
EmitsCompleted(l) ==
    /\ LoopReturns(l)
    /\ Len(events') = Len(events) + 1
    /\ events'[Len(events')].type = "completed"

\* C8: the events of a run of N pages from an empty frame sequence, every
\* action succeeding, are progress 1..N in order then one completed with
\* count N; and no loop emits completed after its cancellation was requested.
C8_ProgressThenCompleted ==
    /\ []((/\ loops[1].pc # "none"
           /\ \A l \in LoopIds \ {1} : loops[l].pc = "none"
           /\ nStops = 0 /\ nDisc = 0
           /\ \A k \in 1..Len(events) : events[k].type # "error")
          => /\ IsPrefix(events, RunEvents(config.totalPages))
             /\ loops[1].pc = "done" => events = RunEvents(config.totalPages))
    /\ [][\A l \in LoopIds : EmitsCompleted(l) => ~loops[l].stopRequested]_vars

\* Loop l starts an iteration in this step: it leaves the head of the loop
\* or the pause wait and emits the progress event of a page.
StartsIteration(l) ==
    /\ loops[l].pc \in {"pausewait", "key"}
    /\ loops'[l].pc # loops[l].pc
    /\ Len(events') > Len(events)
    /\ events'[Len(events) + 1].type = "progress"

\* C9: once stopAndSave has cleared the active-loop flag, a capture loop
\* starts no further iteration, also when it was suspended in the pause wait.
C9_NoIterationAfterCancel ==
    [][\A l \in LoopIds :
          (loops[l].stopRequested /\ ~captureLoopActive) => ~StartsIteration(l)]_vars

\* C10: after a stopAndSave that wrote the document has returned, the frame
\* sequence is empty and the memory counter zero, and both stay so until the
\* next accepted startCapture (which sets the flag).
C10_EmptyAfterSave ==
    [][(/\ Len(docs) > 0
        /\ \A s \in SaverIds : savers[s].pc \in {"none", "done"}
        /\ ~captureLoopActive /\ ~captureLoopActive'
        /\ capturedImages = <<>> /\ memoryUsageBytes = 0)
       => (capturedImages' = <<>> /\ memoryUsageBytes' = 0)]_vars

\* C11: after a stopAndSave has returned on a session whose browser is still
\* connected (and no loop or save is in progress), a launch followed by a
\* startCapture is accepted: the state launchBrowser leaves passes the guard
\* of startCapture.
C11_FreshCaptureAfterSave ==
    (/\ \E s \in SaverIds : savers[s].pc = "done"
     /\ \A s \in SaverIds : savers[s].pc \in {"none", "done"}
     /\ RunningLoops = {}
     /\ browser)
        => (page /\ LaunchState(browser, state) # "IDLE")

\* C12: captured frames are never discarded or altered except by a
\* stopAndSave that has written the document: in every step that changes the
\* frame sequence, either the old sequence is a prefix of the new one (frames
\* are only appended), or a document is written in that step and the sequence
\* becomes empty.
C12_FramesKept ==
    [][capturedImages' # capturedImages
       => \/ IsPrefix(capturedImages, capturedImages')
          \/ (Len(docs') = Len(docs) + 1 /\ capturedImages' = <<>>)]_vars

\* Frames are held after a loop was aborted by an error, pauseCapture was
\* called, the browser disconnected and a stopAndSave threw.
C12_Witness ==
    /\ Len(capturedImages) >= 1
    /\ \E k \in 1..Len(events) : events[k].type = "error" /\ events[k].n >= 1
    /\ everPaused
    /\ nDisc >= 1
    /\ \E s \in SaverIds : savers[s].pc = "failed"
    /\ docs = <<>>

\* Loop l is aborted in this step: it returns through its catch block, which
\* emits the error event of the failing page.
LoopAborts(l) ==
    /\ LoopReturns(l)
    /\ Len(events') > Len(events)
    /\ events'[Len(events')].type = "error"

\* C13: when an iteration fails after its retries, the loop aborts and the
\* state becomes Idle: the step in which a loop is aborted leaves the state
\* Idle, not Capturing and not Completed.
C13_AbortLeavesIdle ==
    [][\A l \in LoopIds : LoopAborts(l) => state' = "IDLE"]_vars

\* The error events appended to the event sequence in this step.
NewErrors ==
    {k \in (Len(events) + 1)..Len(events') : events'[k].type = "error"}

\* C14: a loop aborted by a fatal iteration error emits exactly one error
\* event, which carries recoverable: false and the 1-based index of the
\* failing page.
C14_OneFatalErrorEvent ==
    [][\A l \in LoopIds : LoopAborts(l) =>
          /\ Cardinality(NewErrors) = 1
          /\ \A k \in NewErrors : /\ events'[k].recoverable = "false"
                                   /\ events'[k].n = loops[l].i + 1]_vars

C16_PauseResumeOnlyFromSource ==
    [][/\ (PauseCapture /\ state # "CAPTURING") => state' = state
       /\ (ResumeCapture /\ state # "PAUSED") => state' = state]_vars

\* C17: a stopAndSave called with an empty frame sequence, from any state,
\* clears the active-loop flag, leaves the state Idle and returns at once
\* without writing a document: a document is written only by a stopAndSave
\* that reached pdfDoc.save(), which a returned one never does.
C17_EmptyStopWritesNothing ==
    /\ [][(nStops' = nStops + 1 /\ capturedImages = <<>>)
          => /\ ~captureLoopActive'
             /\ state' = "IDLE"
             /\ docs' = docs
             /\ savers'[nStops'].pc = "done"]_vars
    /\ [][\A s \in SaverIds : savers[s].pc = "done" => savers'[s].pc = "done"]_vars
    /\ [][docs' # docs => \E s \in SaverIds : savers[s].pc = "save"]_vars

\* stopAndSave was called with no frame while a capture loop was running
\* (the state was Capturing or Paused) and has returned without a document.
C17_Witness ==
    /\ nStops = 1
    /\ savers[1].pc = "done"
    /\ docs = <<>>
    /\ capturedImages = <<>>
    /\ \E l \in LoopIds : loops[l].stopRequested /\ loops[l].i = 0
    /\ state = "IDLE"
    /\ ~captureLoopActive

\* The observer calls of a retry whose first k attempts failed: attempt
\* numbers 1..k, each with the error of that attempt.
ObserverCalls(outcomes, k) == [j \in 1..k |-> <<j, outcomes[j]>>]

\* A retry that returned did so with the value of invocation k + 1, after k
\* failures and k observer calls, k < maxRetries.
ReturnedAsReference ==
    LET r == retryRun
        k == Cardinality(Failures(r.outcomes))
    IN  r.pc = "returned"
          => /\ k < r.maxRetries
             /\ r.calls = k + 1
             /\ Len(r.outcomes) = k + 1
             /\ Failures(r.outcomes) = 1..k
             /\ r.result = r.outcomes[k + 1]
             /\ r.hasObserver => r.observed = ObserverCalls(r.outcomes, k)

\* A retry with maxRetries >= 1 that threw did so with the error of
\* invocation maxRetries, after maxRetries - 1 observer calls.
ThrownAsReference ==
    LET r == retryRun
    IN  (r.pc = "thrown" /\ r.maxRetries >= 1)
          => /\ r.calls = r.maxRetries
             /\ Len(r.outcomes) = r.maxRetries
             /\ Failures(r.outcomes) = 1..r.maxRetries
             /\ r.result = r.outcomes[r.maxRetries]
             /\ r.hasObserver
                  => r.observed = ObserverCalls(r.outcomes, r.maxRetries - 1)

\* C18: retry(fn, N, D, observer) with N >= 1.  If fn fails k < N times and
\* then succeeds, retry returns that value after exactly k + 1 invocations
\* and k observer calls; if fn always fails, fn is invoked exactly N times,
\* the observer N - 1 times (attempts 1..N-1, with their errors), and the
\* error of the last attempt is thrown; and a retry that returned or threw
\* makes no further attempt.
C18_RetryMatchesReference ==
    /\ [](ReturnedAsReference /\ ThrownAsReference)
    /\ [][retryRun.pc \in {"returned", "thrown"} => retryRun' = retryRun]_vars

\* retry with an observer and maxRetries 3 returned the value of the third
\* invocation after two failures.
C18_Witness ==
    /\ retryRun.pc = "returned"
    /\ retryRun.hasObserver
    /\ retryRun.maxRetries = 3
    /\ retryRun.calls = 3
    /\ Len(retryRun.observed) = 2
    /\ retryRun.result \in Values

\* C19 as stated: the detector has declared stability as soon as two
\* consecutive polls have yielded identical signatures.
C19_StableAtSecondPoll ==
    stabRun.run >= 2 => stabRun.endedBy = "stable"

\* C19: the detector declares stability and returns exactly when a
\* signature has matched the previous one RequiredStableCount (2) times in
\* a row, that is when three successive successful polls have yielded
\* identical signatures: it has then returned, and it never returns as
\* stable before.
C19_StableAtSecondMatch ==
    stabRun.endedBy = "stable" <=> stabRun.run >= RequiredStableCount + 1

\* The detector returned as stable before its timeout.
C19_Witness ==
    /\ stabRun.pc = "returned"
    /\ stabRun.endedBy = "stable"
    /\ stabRun.run = 3
    /\ ~stabRun.warned
    /\ stabRun.elapsed < StabTimeout

\* C20 as stated: when no poll repeated the signature of the one before it
\* (or polls failed), the detector has not returned before the timeout, and
\* has logged the warning (looked at for calls that polled at least once).
C20_ReturnsOnlyAtTimeout ==
    (stabRun.pc = "returned" /\ stabRun.allDiffer /\ stabRun.prevSig # "null")
        => (stabRun.elapsed >= StabTimeout /\ stabRun.warned)

\* C20: when no poll repeated the signature of the one before it (or polls
\* failed), the detector does not return before the timeout unless the
\* active-loop flag has been cleared; when it returns it has logged the
\* warning; and every detector call returns, so the loop is not blocked.
C20_ReturnsAtTimeoutOrCancel ==
    /\ []((stabRun.pc = "returned" /\ stabRun.allDiffer)
          => /\ stabRun.warned
             /\ stabRun.elapsed >= StabTimeout \/ ~captureLoopActive)
    /\ (stabRun.pc # "idle") ~> (stabRun.pc = "returned")

\* The detector returned at its timeout, the flag still set, after polls
\* that all differed from the one before.
C20_Witness ==
    /\ stabRun.pc = "returned"
    /\ stabRun.allDiffer
    /\ stabRun.run = 1
    /\ stabRun.warned
    /\ stabRun.elapsed >= StabTimeout
    /\ captureLoopActive

\* Run r returns in this step.
RunFinishes(r) == batch.runs[r].pc # "done" /\ batch'.runs[r].pc = "done"

\* Run r marks an item processing in this step.
MarksProcessing(r) == batch'.runs[r].item # batch.runs[r].item

\* Every item of queue q is completed or failed, and results res has one
\* entry per item, in queue order, successful exactly for a completed item
\* and else carrying an error message.
AllAttempted(q, res) ==
    /\ Len(res) = Len(q)
    /\ \A k \in 1..Len(q) :
          /\ q[k].status \in {"completed", "failed"}
          /\ res[k].uid = q[k].uid
          /\ res[k].success <=> q[k].status = "completed"
          /\ ~res[k].success => res[k].error \in BatchErrors

\* C21: when a batch run that was not cancelled returns, every item of the
\* queue is completed or failed (a failed item having one unsuccessful
\* result with the error message, the items after it processed all the
\* same) and the result list has exactly one entry per item, in queue order.
C21_EveryItemAttempted ==
    [][\A r \in RunIds :
          (RunFinishes(r) /\ ~batch.runs[r].cancelled)
              => AllAttempted(batch'.queue, batch'.results)]_vars

\* C22: at most one batch run is active at any time, also when
\* startProcessing follows a stopProcessing whose run has an item in flight.
C22_AtMostOneRun == Cardinality(ActiveRuns) <= 1

\* The batch_complete events of run r.
CompletesOf(b, r) == {k \in 1..Len(b.completes) : b.completes[k].run = r}

\* C23: after stopProcessing was called during a run, that run marks no
\* further item processing; when it returns isProcessing is false, the item
\* it had in flight is completed or failed, the items after it are still
\* pending, and exactly one batch_complete event, carrying the status
\* snapshot, has been emitted for the run.
C23_StopEndsRun ==
    [][\A r \in RunIds : batch.runs[r].cancelled =>
          /\ ~MarksProcessing(r)
          /\ RunFinishes(r) =>
                /\ ~batch'.isProcessing
                /\ \A k \in 1..Len(batch'.queue) :
                      /\ batch'.queue[k].uid = batch.runs[r].item
                            => batch'.queue[k].status \in {"completed", "failed"}
                      /\ k > batch.runs[r].i + 1
                            => batch'.queue[k].status = "pending"
                /\ Cardinality(CompletesOf(batch', r)) = 1
                /\ \A k \in CompletesOf(batch', r) :
                      batch'.completes[k].status = GetStatus(batch')]_vars

\* The queue positions whose item has status processing.
ProcessingItems == {k \in 1..Len(batch.queue) : batch.queue[k].status = "processing"}

\* C24: at most one item has status processing at any moment; an item is
\* marked processing only when no item before it is still pending; and
\* addToQueue appends: the items already queued keep their id, url, status
\* and position.
C24_InOrderOneAtATime ==
    /\ [](Cardinality(ProcessingItems) <= 1)
    /\ [][\A r \in RunIds : (MarksProcessing(r) /\ batch'.runs[r].pc # "done")
            => \A k \in 1..batch'.runs[r].i : batch'.queue[k].status # "pending"]_vars
    /\ [][batch'.made > batch.made => IsPrefix(batch.queue, batch'.queue)]_vars

\* C25: the ids of the queued items are strictly increasing in enqueue
\* order, hence pairwise distinct, whatever the clock values of the calls.
C25_IdsIncreasing ==
    \A j, k \in 1..Len(batch.queue) : j < k => batch.queue[j].id < batch.queue[k].id

\* C26: clearQueue called while isProcessing is true throws and leaves the
\* queue, the result list and the current index unchanged; called while it
\* is false it empties the queue and the result list.
C26_ClearOnlyWhenIdle ==
    /\ [](batch.isProcessing
            => /\ ClearedBatch(batch).clearThrew
               /\ ClearedBatch(batch).queue = batch.queue
               /\ ClearedBatch(batch).results = batch.results
               /\ ClearedBatch(batch).currentIndex = batch.currentIndex)
    /\ [](~batch.isProcessing
            => /\ ClearedBatch(batch).queue = <<>>
               /\ ClearedBatch(batch).results = <<>>)
    /\ [][batch'.clearThrew # batch.clearThrew
            => /\ batch.isProcessing /\ batch'.isProcessing
               /\ batch'.queue = batch.queue
               /\ batch'.results = batch.results
               /\ batch'.currentIndex = batch.currentIndex]_vars
    /\ [][(ClearQueue /\ ~batch.isProcessing)
            => (batch'.queue = <<>> /\ batch'.results = <<>>)]_vars

\* A clearQueue has thrown during a run that had a result, and after the
\* run a clearQueue has emptied the queue and the result list.
C26_Witness ==
    /\ batch.clearThrew
    /\ batch.made > 0
    /\ batch.queue = <<>>
    /\ batch.results = <<>>
    /\ Len(batch.completes) > 0
    /\ batch.completes[1].status.completed > 0

\* stopAndSave invocation s writes its document in this step.
Writes(s) ==
    /\ savers[s].pc = "save"
    /\ savers'[s].pc = "done"
    /\ Len(docs') = Len(docs) + 1

\* The pages show the frames, page i frame i, one page per frame.
ShowsFrames(pages, frames) ==
    /\ Len(pages) = Len(frames)
    /\ \A i \in 1..Len(pages) : pages[i].k = i /\ pages[i].pos = frames[i].pos

NoTextLayer(pages) == \A i \in 1..Len(pages) : pages[i].text = 0

\* C27: a stopAndSave called with M >= 1 frames that reads OCR as disabled
\* and whose embeddings all succeed writes a document of exactly M pages,
\* page i showing frame i, with no text layer on any page.
C27_PlainDocument ==
    [][\A s \in SaverIds :
          (/\ Writes(s)
           /\ Len(savers[s].frames) >= 1
           /\ savers[s].ocrReads = {FALSE}
           /\ savers[s].skipped = {})
              => /\ docs'[Len(docs')].pages = savers[s].doc
                 /\ ShowsFrames(savers[s].doc, savers[s].frames)
                 /\ NoTextLayer(savers[s].doc)]_vars

\* Every one of the frames has a non-empty OCR result.
AllRecognized(ocr, frames) ==
    /\ Len(ocr) >= Len(frames)
    /\ \A i \in 1..Len(frames) : ocr[i] # 0

\* C28: a stopAndSave called with M frames that reads OCR as enabled, has
\* a non-empty OCR result for each of the M frames and meets no failure of
\* an embedding or of a text layer writes a document of M pages, page i
\* showing frame i and carrying the text of OCR result i; and at any time
\* a page has a text layer only if OCR was read as enabled and the page's
\* own OCR result has that, non-empty, text.
C28_TextLayerAligned ==
    /\ [][\A s \in SaverIds :
            (/\ Writes(s)
             /\ savers[s].ocrReads = {TRUE}
             /\ AllRecognized(savers[s].ocr, savers[s].frames)
             /\ savers[s].skipped = {}
             /\ savers[s].textFailed = {})
                => /\ ShowsFrames(savers[s].doc, savers[s].frames)
                   /\ \A i \in 1..Len(savers[s].doc) :
                         /\ savers[s].doc[i].text = savers[s].ocr[i]
                         /\ savers[s].doc[i].text = savers[s].doc[i].pos]_vars
    /\ [](\A s \in SaverIds : \A i \in 1..Len(savers[s].doc) :
            savers[s].doc[i].text # 0
                => /\ TRUE \in savers[s].ocrReads
                   /\ savers[s].doc[i].k <= Len(savers[s].ocr)
                   /\ savers[s].doc[i].text = savers[s].ocr[savers[s].doc[i].k])

\* The frame numbers of the pages.
PageFrames(pages) == {pages[i].k : i \in 1..Len(pages)}

\* C29: a frame whose embedding fails is skipped without aborting: the step
\* adds no page and goes on to the next frame or to the save; the document
\* written holds exactly the frames the embedding loop visited and embedded
\* successfully, in their original order.
C29_FailedFrameSkipped ==
    /\ [][\A s \in SaverIds : savers'[s].skipped \ savers[s].skipped # {}
            => /\ savers'[s].pc \in {"embed", "save"}
               /\ savers'[s].doc = savers[s].doc
               /\ events' = events]_vars
    /\ [][\A s \in SaverIds : Writes(s)
            => /\ docs'[Len(docs')].pages = savers[s].doc
               /\ PageFrames(savers[s].doc) = (1..savers[s].k) \ savers[s].skipped
               /\ \A i, j \in 1..Len(savers[s].doc) :
                     i < j => savers[s].doc[i].k < savers[s].doc[j].k]_vars

\* A document is written whose only page is the second frame: the
\* embedding of the first frame failed, that of the second succeeded.
C29_Witness ==
    /\ Len(docs) = 1
    /\ Len(docs[1].pages) = 1
    /\ docs[1].pages[1].k = 2
    /\ docs[1].pages[1].pos = 2

\* C30: when OCR processing fails as a whole stopAndSave goes on to the
\* embedding without an error event and without throwing, the OCR results
\* are discarded, and the document written (its embeddings succeeding) has
\* one page per frame and no text layer.
C30_OcrFailureIsolated ==
    /\ [][\A s \in SaverIds : (savers'[s].ocrFailed /\ ~savers[s].ocrFailed)
            => /\ savers'[s].pc \in {"embed", "save"}
               /\ savers'[s].ocr = <<>>
               /\ events' = events]_vars
    /\ [](\A s \in SaverIds : savers[s].ocrFailed
            => savers[s].ocr = <<>> /\ NoTextLayer(savers[s].doc))
    /\ [][\A s \in SaverIds :
            (Writes(s) /\ savers[s].ocrFailed /\ savers[s].skipped = {})
                => /\ ShowsFrames(savers[s].doc, savers[s].frames)
                   /\ NoTextLayer(docs'[Len(docs')].pages)]_vars

\* Some page of the document has a text layer.
HasTextLayer(pages) == \E i \in 1..Len(pages) : pages[i].text # 0

\* C31: the name of a document written carries the OCR suffix exactly when
\* some OCR text was embedded in it; a document without any text layer (OCR
\* disabled, OCR failed, every OCR result empty) has no OCR suffix.
C31_SuffixIffTextEmbedded ==
    [][\A s \in SaverIds : Writes(s)
          => (docs'[Len(docs')].ocrSuffix <=> HasTextLayer(docs'[Len(docs')].pages))]_vars

\* C32: a configuration update made during an iteration does not affect that
\* iteration: the delay the iteration sleeps and the image format of its
\* screenshot are those the config held when the body of the iteration
\* began.
C32_ConfigFixedPerIteration ==
    \A l \in LoopIds :
        /\ loops[l].pc \in {"delay", "stab", "hide", "shot", "show"}
              => loops[l].delay = loops[l].began.delay
        /\ loops[l].pc \in {"hide", "shot", "show"}
              => loops[l].format = loops[l].began.imageFormat

\* C35: at assembly every frame is given the decoder of the encoding it was
\* captured in, whatever the image format of the config when stopAndSave is
\* called, and so no frame is skipped for a change of the image format.
C35_DecoderMatchesFrame ==
    \A s \in SaverIds : savers[s].pc = "embed"
        => Decoder(savers[s].format, savers[s].curJpeg) = Encoding(savers[s].curJpeg)

\* The frames (by the content page they show) on the pages of document d.
FramesOf(d) == {docs[d].pages[i].pos : i \in 1..Len(docs[d].pages)}

\* C33: each captured frame of the run is in at most one document written:
\* no two documents, also those of overlapping stopAndSave calls, hold the
\* same frame.
C33_FrameInOneDocument ==
    \A d1, d2 \in 1..Len(docs) : d1 # d2 => FramesOf(d1) \cap FramesOf(d2) = {}

\* C34: the overlay of the page is hidden only while a loop takes its
\* screenshot: whenever no loop is between the hiding and the showing of the
\* overlay, also after an iteration whose screenshot has failed, the
\* overlay is visible.
C34_OverlayShownOutsideShot ==
    (page /\ \A l \in LoopIds : loops[l].pc \notin {"shot", "show"}) => overlayShown

\* Loop l returns in this step.
LoopEnds(l) == LoopRunning(l) /\ loops'[l].pc = "done"

\* A completed event is emitted in this step.
CompletedEmitted ==
    /\ Len(events') = Len(events) + 1
    /\ events'[Len(events')].type = "completed"

\* C36: a capture loop that was running when stopAndSave was called or the
\* browser disconnected returns without emitting a completed event.  (That
\* it returns at all is the liveness half of the claim.)
C36_CancelledLoopEndsSilently ==
    [][\A l \in LoopIds :
          (LoopEnds(l) /\ (loops[l].stopRequested \/ loops[l].disconnected))
              => ~CompletedEmitted]_vars

\* The sum of the byte sizes of the frames.
RECURSIVE TotalBytes(_)
TotalBytes(frames) ==
    IF frames = <<>> THEN 0
    ELSE BufferLength(frames[1].pos) + TotalBytes(Tail(frames))

\* C37: in every reachable state the memory counter is the sum of the byte
\* sizes of the frames in the frame sequence, zero when it is empty.
C37_CounterIsSumOfFrames == memoryUsageBytes = TotalBytes(capturedImages)

\* After a document was written and the counter reset, the iteration in
\* flight has pushed a frame, and with a second one the counter is the sum.
C37_Witness ==
    /\ Len(docs) = 1
    /\ Len(capturedImages) = 2
    /\ memoryUsageBytes = capturedImages[1].pos + capturedImages[2].pos
    /\ memoryUsageBytes > capturedImages[2].pos

\* How far a status is on the way pending, processing, completed or failed.
StatusRank(st) ==
    IF st = "pending" THEN 0 ELSE IF st = "processing" THEN 1 ELSE 2

\* C38: the status of a queued item only moves forward: it never goes back
\* to an earlier status, and an item that is completed or failed keeps that
\* status as long as it is in the queue, also under a later
\* startProcessing.
C38_StatusMovesForward ==
    [][\A k \in 1..Len(batch.queue) :
          (k <= Len(batch'.queue) /\ batch'.queue[k].uid = batch.queue[k].uid)
              => /\ StatusRank(batch'.queue[k].status) >= StatusRank(batch.queue[k].status)
                 /\ StatusRank(batch.queue[k].status) = 2
                       => batch'.queue[k].status = batch.queue[k].status]_vars

\* C39: whenever a progress event with count k is emitted, at least k
\* frames are held by the session.
C39_ProgressWithinFrames ==
    [][\A j \in (Len(events) + 1)..Len(events') :
          events'[j].type = "progress" => Len(capturedImages') >= events'[j].n]_vars

HasSubstring(s, a, b) == \E j \in 1..(Len(s) - 1) : s[j] = a /\ s[j + 1] = b

\* C40: the name sanitizeFilename returns has no "/", no "\" and no "..",
\* and the path a download or delete request resolves is not outside the
\* output directory.
C40_SanitizedStaysInside ==
    request.op # "none" =>
        /\ \A j \in 1..Len(request.filename) : request.filename[j] \notin Slashes
        /\ ~HasSubstring(request.filename, ".", ".")
        /\ request.filePath.up = 0

====
